---- MODULE Spec2Model ----
(***************************************************************************)
(* Graph partitioner of the Vitis-AI execution provider                    *)
(* (onnxruntime/core/providers/vitisai/vitisai_execution_provider.cc):     *)
(* GetUnsupportedNodeIndices, GetPartitionedClusters,                      *)
(* GetInputsOutputsOfCluster, AppendClusterToSubGraph and GetCapability.   *)
(***************************************************************************)
EXTENDS Integers, Sequences, FiniteSets, TLC

\* ------------------------------------------------------------------ bounds

\* Number of nodes of every graph the partitioner is run on.
MaxNodes == 3

\* Number of threads that call GetCapability concurrently (SpecConc).
NumThreads == 2

\* Number of GetCapability calls each concurrent thread makes (SpecConc).
MaxCalls == 2

\* ------------------------------------------------------------ sequences

Range(s) == {s[i] : i \in 1..Len(s)}

\* All orderings of a finite set: the iteration orders an unordered_set
\* can have.
Perms(S) == {s \in [1..Cardinality(S) -> S] : \A x \in S : \E i \in 1..Cardinality(S) : s[i] = x}

\* Sequences over S of length at most n.
SeqsUpTo(S, n) == UNION {[1..k -> S] : k \in 0..n}

\* Position of x in s (0 when absent).
Pos(s, x) == IF x \in Range(s) THEN CHOOSE i \in 1..Len(s) : s[i] = x /\ \A j \in 1..(i-1) : s[j] # x ELSE 0

RECURSIVE Flatten(_)
Flatten(ss) == IF ss = <<>> THEN <<>> ELSE Head(ss) \o Flatten(Tail(ss))

\* ---------------------------------------------------------- graph view

\* Tensor names. X is a declared graph input, W an initializer that is not a
\* graph input, D an initializer that is also a declared graph input.
X == "x"
W == "w"
D == "d"
FirstOut == <<"o1", "o2", "o3", "o4", "o5", "o6">>
SecondOut == <<"q1", "q2", "q3", "q4", "q5", "q6">>

Initializers == {W, D}
GraphInputs == {X, D}

\* Node::InputDefs / Node::OutputDefs of the node with index n.
InputDefs(g, n) == g.node[n].inputs
OutputDefs(g, n) == g.node[n].outputs

\* GraphViewer::GetNodesInTopologicalOrder
TopologicalOrder(g) == g.order

\* Node::OutputNodesBegin..OutputNodesEnd: the nodes that have an edge from
\* n, i.e. that read one of n's outputs.
OutputNodes(g, n) == {m \in Range(g.order) : Range(InputDefs(g, m)) \cap Range(OutputDefs(g, n)) # {}}

\* ------------------------------------------- GetUnsupportedNodeIndices

\* LOGS_DEFAULT(FATAL): the partitioning call is abandoned.
FatalLogAborts == TRUE

\* The scan of one node's outputs (lines 71-85): is_node_supported after
\* the loop, and whether the FATAL branch was taken.
RECURSIVE ScanOutputs(_, _, _, _)
ScanOutputs(outs, supported_tensors, is_node_supported, fatal) ==
  IF outs = <<>> THEN [supported |-> is_node_supported, fatal |-> fatal]
  ELSE IF Head(outs) \in supported_tensors
       THEN ScanOutputs(Tail(outs), supported_tensors, TRUE, fatal)
       ELSE ScanOutputs(Tail(outs), supported_tensors, is_node_supported, fatal \/ is_node_supported)

IsNodeSupported(g, supported_tensors, n) == ScanOutputs(OutputDefs(g, n), supported_tensors, FALSE, FALSE).supported

NodeIsFatal(g, supported_tensors, n) == ScanOutputs(OutputDefs(g, n), supported_tensors, FALSE, FALSE).fatal

\* Inputs of a supported node that are initializers (lines 89-92).
NodeInitializerInputs(g, n) == {a \in Range(InputDefs(g, n)) : a \in g.initializers}

\* The whole function: unsupported_nodes_idx and the out-parameter
\* required_initializers, and whether a FATAL message was logged.
GetUnsupportedNodeIndices(g, supported_tensors) ==
  LET Unsup(n) == ~IsNodeSupported(g, supported_tensors, n)
  IN [unsupported |-> SelectSeq(TopologicalOrder(g), Unsup),
      required |-> UNION {NodeInitializerInputs(g, n) : n \in {m \in Range(g.order) : IsNodeSupported(g, supported_tensors, m)}},
      fatal |-> \E n \in Range(g.order) : NodeIsFatal(g, supported_tensors, n)]

\* ---------------------------------------------- GetPartitionedClusters

\* std::find(prev, topological_order.end(), x): the first position at or
\* after prev holding x, Len+1 (end) when there is none.
Find(topological_order, prev, x) ==
  IF \E i \in prev..Len(topological_order) : topological_order[i] = x
  THEN CHOOSE i \in prev..Len(topological_order) : topological_order[i] = x /\ \A j \in prev..(i-1) : topological_order[j] # x
  ELSE Len(topological_order) + 1

RECURSIVE PartitionFrom(_, _, _, _, _)
PartitionFrom(topological_order, unsupported_nodes, k, prev, clusters) ==
  IF k > Len(unsupported_nodes)
  THEN LET this_cluster == SubSeq(topological_order, prev, Len(topological_order))
       IN IF this_cluster # <<>> THEN Append(clusters, this_cluster) ELSE clusters
  ELSE LET it == Find(topological_order, prev, unsupported_nodes[k])
           this_cluster == SubSeq(topological_order, prev, it - 1)
       IN PartitionFrom(topological_order, unsupported_nodes, k + 1, it + 1,
                        IF this_cluster # <<>> THEN Append(clusters, this_cluster) ELSE clusters)

\* Faulty variant: prev is left on the unsupported node (prev = it).
RECURSIVE PartitionFromKeepingCut(_, _, _, _, _)
PartitionFromKeepingCut(topological_order, unsupported_nodes, k, prev, clusters) ==
  IF k > Len(unsupported_nodes)
  THEN LET this_cluster == SubSeq(topological_order, prev, Len(topological_order))
       IN IF this_cluster # <<>> THEN Append(clusters, this_cluster) ELSE clusters
  ELSE LET it == Find(topological_order, prev, unsupported_nodes[k])
           this_cluster == SubSeq(topological_order, prev, it - 1)
       IN PartitionFromKeepingCut(topological_order, unsupported_nodes, k + 1, it,
                                  IF this_cluster # <<>> THEN Append(clusters, this_cluster) ELSE clusters)

GetPartitionedClustersKeepingCut(topological_order, unsupported_nodes) ==
  PartitionFromKeepingCut(topological_order, unsupported_nodes, 1, 1, <<>>)

GetPartitionedClusters(topological_order, unsupported_nodes) ==
  PartitionFrom(topological_order, unsupported_nodes, 1, 1, <<>>)

\* ------------------------------------------- GetInputsOutputsOfCluster

\* Append the names of s not yet in acc, in order (lines 147-151).
RECURSIVE AppendUnseen(_, _)
AppendUnseen(acc, s) ==
  IF s = <<>> THEN acc
  ELSE AppendUnseen(IF Head(s) \in Range(acc) THEN acc ELSE Append(acc, Head(s)), Tail(s))

RECURSIVE OrderedInputArgsFrom(_, _, _)
OrderedInputArgsFrom(g, cluster, acc) ==
  IF cluster = <<>> THEN acc
  ELSE OrderedInputArgsFrom(g, Tail(cluster), AppendUnseen(acc, InputDefs(g, Head(cluster))))

OrderedInputArgs(g, cluster) == OrderedInputArgsFrom(g, cluster, <<>>)

OutputArgs(g, cluster) == UNION {Range(OutputDefs(g, n)) : n \in Range(cluster)}

\* Faulty variant: the membership test of line 162 is inverted.
ExternalOutputArgsInverted(g, cluster) ==
  UNION {UNION {Range(OutputDefs(g, n)) \cap Range(InputDefs(g, ext_node)) :
                  ext_node \in {m \in OutputNodes(g, n) : m \in Range(cluster)}} :
           n \in Range(cluster)}

\* Lines 158-179: outputs of cluster nodes read by a consumer outside it.
ExternalOutputArgs(g, cluster) ==
  UNION {UNION {Range(OutputDefs(g, n)) \cap Range(InputDefs(g, ext_node)) :
                  ext_node \in {m \in OutputNodes(g, n) : m \notin Range(cluster)}} :
           n \in Range(cluster)}

\* GetInputsIncludingInitializers, as the set original_graph_inputs.
OriginalGraphInputs(g) == g.inputs

\* Faulty variant: the test without ng_required_initializers.
IsConstInputIgnoringRequired(g, ng_required_initializers, in_arg) ==
  in_arg \in g.initializers /\ in_arg \notin OriginalGraphInputs(g)

\* The test of lines 191-192 and 199-200.
IsConstInput(g, ng_required_initializers, in_arg) ==
  (in_arg \in g.initializers /\ in_arg \notin OriginalGraphInputs(g)) \/ in_arg \in ng_required_initializers

ConstInputs(g, cluster, ng_required_initializers) ==
  LET Test(in_arg) == IsConstInput(g, ng_required_initializers, in_arg)
  IN SelectSeq(OrderedInputArgs(g, cluster), Test)

\* Faulty variant: only declared graph inputs count as dynamic inputs.
DynamicInputsGraphInputsOnly(g, cluster, ng_required_initializers) ==
  LET Test(in_arg) == in_arg \in OriginalGraphInputs(g) /\ ~IsConstInput(g, ng_required_initializers, in_arg)
  IN SelectSeq(OrderedInputArgs(g, cluster), Test)

DynamicInputs(g, cluster, ng_required_initializers) ==
  LET Test(in_arg) == in_arg \notin OutputArgs(g, cluster) /\ ~IsConstInput(g, ng_required_initializers, in_arg)
  IN SelectSeq(OrderedInputArgs(g, cluster), Test)

\* Faulty variant: const_inputs is never appended (lines 205-207 missing).
ClusterInputsDynamicOnly(g, cluster, ng_required_initializers) ==
  DynamicInputs(g, cluster, ng_required_initializers)

\* Faulty variant: const_inputs is copied before the dynamic inputs.
ClusterInputsConstFirst(g, cluster, ng_required_initializers) ==
  ConstInputs(g, cluster, ng_required_initializers) \o DynamicInputs(g, cluster, ng_required_initializers)

ClusterInputs(g, cluster, ng_required_initializers) ==
  DynamicInputs(g, cluster, ng_required_initializers) \o ConstInputs(g, cluster, ng_required_initializers)

\* Lines 210-215: graph outputs produced in the cluster and not yet listed.
GraphOutputTail(g, cluster) ==
  LET Test(name) == name \in OutputArgs(g, cluster) /\ name \notin ExternalOutputArgs(g, cluster)
  IN SelectSeq(g.outputs, Test)

\* Every value cluster_outputs can take: external_output_args in any
\* iteration order of the unordered_set, then the graph-output tail.
ClusterOutputsChoices(g, cluster) ==
  {ext \o GraphOutputTail(g, cluster) : ext \in Perms(ExternalOutputArgs(g, cluster))}

\* --------------------------------------------- AppendClusterToSubGraph

\* "VitisAICustomOp_" + std::to_string(n)
MetaDefName(n) == "VitisAICustomOp_" \o ToString(n)

\* --------------------------------------------------------- GetCapability

\* Faulty variant: initializers that are graph inputs are not looked at.
HasExternalInitializerSkippingInputs(g) ==
  \E tensor \in g.initializers \ g.inputs : tensor \in g.external

\* Lines 282-287: some initializer has an external data location.
HasExternalInitializer(g) == \E tensor \in g.initializers : tensor \in g.external

\* Faulty variant: the emptiness test of line 298 is missing.
ShouldEmitAlways(cluster_inputs) == TRUE

\* Line 298.
ShouldEmit(cluster_inputs) == cluster_inputs # <<>>

\* ------------------------------------------------- graphs partitioned

\* Node indices are 0-based; Ascending is the order in which index and
\* position agree.
NodeIndices == 0..(MaxNodes - 1)
Ascending == [p \in 1..MaxNodes |-> p - 1]

\* A graph view over nodes given by position: shapes[p] is the node at
\* position p of the topological order, order[p] its node index.
MkGraph(order, shapes, graph_outputs, is_subgraph, external) ==
  [order |-> order,
   node |-> [n \in Range(order) |-> shapes[Pos(order, n)]],
   initializers |-> Initializers,
   external |-> external,
   inputs |-> GraphInputs,
   outputs |-> graph_outputs,
   is_subgraph |-> is_subgraph]

Shape(inputs, outputs) == [inputs |-> inputs, outputs |-> outputs]

Produced(shapes) == UNION {Range(shapes[p].outputs) : p \in 1..Len(shapes)}
Consumed(shapes) == UNION {Range(shapes[p].inputs) : p \in 1..Len(shapes)}

\* The produced tensors no node reads, in production order: the graph
\* outputs of a graph that declares exactly its dangling tensors.
LeafOutputs(shapes) ==
  LET Test(name) == name \notin Consumed(shapes)
  IN SelectSeq(Flatten([p \in 1..Len(shapes) |-> shapes[p].outputs]), Test)

\* What a node at position p can read: graph inputs, initializers and the
\* first outputs of the nodes before it.
Avail(p) == {X, W, D} \cup {FirstOut[j] : j \in 1..(p - 1)}

\* Read plans for positions p..MaxNodes: every node reads at most one
\* tensor, except at most one node, which reads two.
RECURSIVE ReadPlans(_, _)
ReadPlans(p, wide) ==
  IF p > MaxNodes THEN {<<>>}
  ELSE {<<r>> \o rest : r \in SeqsUpTo(Avail(p), 1), rest \in ReadPlans(p + 1, wide)}
       \cup (IF wide THEN {} ELSE {<<r>> \o rest : r \in [1..2 -> Avail(p)], rest \in ReadPlans(p + 1, TRUE)})

\* Graphs that vary what the nodes read; every node has one output.
ReadsGraphs ==
  {MkGraph(Ascending, [p \in 1..MaxNodes |-> Shape(plan[p], <<FirstOut[p]>>)],
           LeafOutputs([p \in 1..MaxNodes |-> Shape(plan[p], <<FirstOut[p]>>)]), FALSE, {}) :
     plan \in ReadPlans(1, FALSE)}

\* Output plans for positions p..MaxNodes: a node has zero, one or two
\* outputs and reads the graph input or one output of the node before it.
RECURSIVE OutputPlans(_, _)
OutputPlans(p, before) ==
  IF p > MaxNodes THEN {<<>>}
  ELSE UNION {{<<Shape(<<r>>, outs)>> \o rest : r \in {X} \cup Range(before), rest \in OutputPlans(p + 1, outs)} :
                outs \in {<<>>, <<FirstOut[p]>>, <<FirstOut[p], SecondOut[p]>>}}

\* Graphs that vary the number of outputs of the nodes.
OutputsGraphs ==
  {MkGraph(Ascending, shapes, LeafOutputs(shapes), FALSE, {}) : shapes \in OutputPlans(1, <<>>)}

\* A chain: node 1 reads the graph input, node p+1 the output of node p.
ChainShapes == [p \in 1..MaxNodes |-> Shape(<<IF p = 1 THEN X ELSE FirstOut[p - 1]>>, <<FirstOut[p]>>)]

DistinctSeqs(S, n) == {s \in SeqsUpTo(S, n) : \A i, j \in 1..Len(s) : i # j => s[i] # s[j]}

\* Chains that vary the declared graph outputs.
GraphOutputsGraphs ==
  {MkGraph(Ascending, ChainShapes, outs, FALSE, {}) : outs \in DistinctSeqs(Produced(ChainShapes), 2)}

\* Chains that vary the node indices along the topological order.
TopoGraphs ==
  {MkGraph(order, ChainShapes, LeafOutputs(ChainShapes), FALSE, {}) : order \in Perms(NodeIndices)}

\* Chains that are nested sub-computations or have externally stored
\* initializers.
GuardedGraphs ==
  {MkGraph(Ascending, ChainShapes, outs, sub, ext) :
     outs \in DistinctSeqs(Produced(ChainShapes), 1), sub \in BOOLEAN, ext \in SUBSET Initializers}

Graphs == ReadsGraphs \cup OutputsGraphs \cup GraphOutputsGraphs \cup TopoGraphs \cup GuardedGraphs

\* The support oracle's answers for a graph: any set of its tensors.
Oracles(g) == SUBSET UNION {Range(g.node[n].outputs) : n \in Range(g.order)}

\* ------------------------------------------------------------------ state

VARIABLES
  graph,                  \* per thread: the GraphViewer passed to GetCapability
  supported_tensors,      \* per thread: the oracle's supported tensor names
  pc,                     \* per thread: position in GetCapability
  calls,                  \* per thread: GetCapability calls still to make
  required_initializers,  \* per thread: local of GetCapability
  unsupported_nodes,      \* per thread: local of GetCapability
  clusters,               \* per thread: local of GetCapability
  idx,                    \* per thread: position of the cluster loop
  cluster_inputs,         \* per thread: local of the loop body
  cluster_outputs,        \* per thread: local of the loop body
  loaded,                 \* per thread: op_counter as read by ++op_counter
  result,                 \* per thread: the descriptors of the call
  outcome,                \* per thread: how the last call ended
  resolved,               \* per thread: the interface computed for each cluster of the call
  op_counter,             \* the static counter of AppendClusterToSubGraph
  emitted                 \* every descriptor name given out by the process, in order

vars == <<graph, supported_tensors, pc, calls, required_initializers, unsupported_nodes, clusters,
          idx, cluster_inputs, cluster_outputs, loaded, result, outcome, resolved, op_counter, emitted>>

\* The state before any call: every thread holds a graph of GS and an
\* answer of the oracle for it, and is to make ncalls calls.
InitOf(threads, GS, ncalls) ==
  /\ graph \in [threads -> GS]
  /\ supported_tensors \in {f \in [threads -> UNION {Oracles(graph[t]) : t \in threads}] :
                               \A t \in threads : f[t] \in Oracles(graph[t])}
  /\ pc = [t \in threads |-> "idle"]
  /\ calls = [t \in threads |-> ncalls]
  /\ required_initializers = [t \in threads |-> {}]
  /\ unsupported_nodes = [t \in threads |-> <<>>]
  /\ clusters = [t \in threads |-> <<>>]
  /\ idx = [t \in threads |-> 1]
  /\ cluster_inputs = [t \in threads |-> <<>>]
  /\ cluster_outputs = [t \in threads |-> <<>>]
  /\ loaded = [t \in threads |-> 0]
  /\ result = [t \in threads |-> <<>>]
  /\ outcome = [t \in threads |-> "none"]
  /\ resolved = [t \in threads |-> <<>>]
  /\ op_counter = 0
  /\ emitted = <<>>

\* One thread partitions one graph.
Init == InitOf({1}, Graphs, 1)

\* ---------------------------------------------------------------- actions

\* GetCapability up to the cluster loop (lines 244-292): the two guards,
\* GetUnsupportedNodeIndices and GetPartitionedClusters.
Enter(t) ==
  /\ pc[t] \in {"idle", "done"}
  /\ calls[t] > 0
  /\ calls' = [calls EXCEPT ![t] = @ - 1]
  /\ result' = [result EXCEPT ![t] = <<>>]
  /\ resolved' = [resolved EXCEPT ![t] = <<>>]
  /\ idx' = [idx EXCEPT ![t] = 1]
  /\ UNCHANGED <<graph, supported_tensors, cluster_inputs, cluster_outputs, loaded, op_counter, emitted>>
  /\ LET g == graph[t]
         r == GetUnsupportedNodeIndices(g, supported_tensors[t])
     IN \/ /\ g.is_subgraph
           /\ pc' = [pc EXCEPT ![t] = "done"]
           /\ outcome' = [outcome EXCEPT ![t] = "ok"]
           /\ required_initializers' = [required_initializers EXCEPT ![t] = {}]
           /\ unsupported_nodes' = [unsupported_nodes EXCEPT ![t] = <<>>]
           /\ clusters' = [clusters EXCEPT ![t] = <<>>]
        \/ /\ ~g.is_subgraph
           /\ HasExternalInitializer(g)
           /\ pc' = [pc EXCEPT ![t] = "done"]
           /\ outcome' = [outcome EXCEPT ![t] = "ok"]
           /\ required_initializers' = [required_initializers EXCEPT ![t] = {}]
           /\ unsupported_nodes' = [unsupported_nodes EXCEPT ![t] = <<>>]
           /\ clusters' = [clusters EXCEPT ![t] = <<>>]
        \/ /\ ~g.is_subgraph
           /\ ~HasExternalInitializer(g)
           /\ r.fatal /\ FatalLogAborts
           /\ pc' = [pc EXCEPT ![t] = "aborted"]
           /\ outcome' = [outcome EXCEPT ![t] = "OracleInconsistency"]
           /\ required_initializers' = [required_initializers EXCEPT ![t] = {}]
           /\ unsupported_nodes' = [unsupported_nodes EXCEPT ![t] = <<>>]
           /\ clusters' = [clusters EXCEPT ![t] = <<>>]
        \/ /\ ~g.is_subgraph
           /\ ~HasExternalInitializer(g)
           /\ ~(r.fatal /\ FatalLogAborts)
           /\ pc' = [pc EXCEPT ![t] = "loop"]
           /\ outcome' = [outcome EXCEPT ![t] = "none"]
           /\ required_initializers' = [required_initializers EXCEPT ![t] = r.required]
           /\ unsupported_nodes' = [unsupported_nodes EXCEPT ![t] = r.unsupported]
           /\ clusters' = [clusters EXCEPT ![t] = GetPartitionedClusters(TopologicalOrder(g), r.unsupported)]

\* One pass of the loop body up to the read of op_counter (lines 294-298,
\* 222-225): GetInputsOutputsOfCluster, the emptiness test and, for a
\* cluster that is kept, the load of ++op_counter.
Resolve(t) ==
  /\ pc[t] = "loop"
  /\ idx[t] <= Len(clusters[t])
  /\ LET this_cluster == clusters[t][idx[t]]
         ins == ClusterInputs(graph[t], this_cluster, required_initializers[t])
     IN \E outs \in ClusterOutputsChoices(graph[t], this_cluster) :
          /\ cluster_inputs' = [cluster_inputs EXCEPT ![t] = ins]
          /\ cluster_outputs' = [cluster_outputs EXCEPT ![t] = outs]
          /\ resolved' = [resolved EXCEPT ![t] = Append(@, [nodes |-> this_cluster, inputs |-> ins, outputs |-> outs])]
          /\ \/ /\ ShouldEmit(ins)
                /\ loaded' = [loaded EXCEPT ![t] = op_counter]
                /\ pc' = [pc EXCEPT ![t] = "store"]
                /\ idx' = idx
             \/ /\ ~ShouldEmit(ins)
                /\ idx' = [idx EXCEPT ![t] = @ + 1]
                /\ UNCHANGED <<loaded, pc>>
  /\ UNCHANGED <<graph, supported_tensors, calls, required_initializers, unsupported_nodes, clusters,
                 result, outcome, op_counter, emitted>>

\* The rest of AppendClusterToSubGraph (lines 225-235): the store of
\* ++op_counter, the name and the push onto result.
Store(t) ==
  /\ pc[t] = "store"
  /\ op_counter' = loaded[t] + 1
  /\ result' = [result EXCEPT ![t] = Append(@, [name |-> MetaDefName(loaded[t] + 1),
                                                 nodes |-> clusters[t][idx[t]],
                                                 inputs |-> cluster_inputs[t],
                                                 outputs |-> cluster_outputs[t]])]
  /\ emitted' = Append(emitted, [thread |-> t, name |-> MetaDefName(loaded[t] + 1)])
  /\ idx' = [idx EXCEPT ![t] = @ + 1]
  /\ pc' = [pc EXCEPT ![t] = "loop"]
  /\ UNCHANGED <<graph, supported_tensors, calls, required_initializers, unsupported_nodes, clusters,
                 cluster_inputs, cluster_outputs, loaded, outcome, resolved>>

\* return result (line 303).
Return(t) ==
  /\ pc[t] = "loop"
  /\ idx[t] > Len(clusters[t])
  /\ pc' = [pc EXCEPT ![t] = "done"]
  /\ outcome' = [outcome EXCEPT ![t] = "ok"]
  /\ UNCHANGED <<graph, supported_tensors, calls, required_initializers, unsupported_nodes, clusters,
                 idx, cluster_inputs, cluster_outputs, loaded, result, resolved, op_counter, emitted>>

Next ==
  \/ \E t \in DOMAIN pc : Enter(t)
  \/ \E t \in DOMAIN pc : Resolve(t)
  \/ \E t \in DOMAIN pc : Store(t)
  \/ \E t \in DOMAIN pc : Return(t)

Spec == Init /\ [][Next]_vars

\* ----------------------------------------------- concurrent partitioning

\* Graphs partitioned concurrently: a chain; a chain that is a nested
\* sub-computation; a chain with an externally stored initializer; a chain
\* whose first node reads nothing; a chain whose second node has two
\* outputs.
ConcGraphs ==
  {MkGraph(Ascending, ChainShapes, LeafOutputs(ChainShapes), FALSE, {}),
   MkGraph(Ascending, ChainShapes, LeafOutputs(ChainShapes), TRUE, {}),
   MkGraph(Ascending, ChainShapes, LeafOutputs(ChainShapes), FALSE, {W}),
   MkGraph(Ascending, [p \in 1..MaxNodes |-> Shape(IF p = 1 THEN <<>> ELSE <<X>>, <<FirstOut[p]>>)],
           [p \in 1..MaxNodes |-> FirstOut[p]], FALSE, {}),
   MkGraph(Ascending, [p \in 1..MaxNodes |-> Shape(ChainShapes[p].inputs,
                                                    IF p = 2 THEN <<FirstOut[p], SecondOut[p]>> ELSE <<FirstOut[p]>>)],
           <<SecondOut[2], FirstOut[MaxNodes]>>, FALSE, {})}

Threads == 1..NumThreads

\* Every thread holds its own graph; the threads share only op_counter.
InitConc ==
  /\ InitOf(Threads, ConcGraphs, MaxCalls)
  /\ \A t \in Threads : \A n \in Range(graph[t].order) :
       n # 1 => Range(graph[t].node[n].outputs) \subseteq supported_tensors[t]

SpecConc == InitConc /\ [][Next]_vars

\* ------------------------------------------------------------ properties

\* What the properties say about a graph, read off the graph view itself.
TensorsReadBy(g, nodes) == UNION {Range(g.node[n].inputs) : n \in Range(nodes)}
TensorsProducedBy(g, nodes) == UNION {Range(g.node[n].outputs) : n \in Range(nodes)}
ExternalReads(g, nodes) == TensorsReadBy(g, nodes) \ TensorsProducedBy(g, nodes)
ReadOutside(g, nodes) == UNION {Range(g.node[n].inputs) : n \in Range(g.order) \ Range(nodes)}

\* The reads of the cluster's nodes, in cluster order; the first use of a
\* name is its first position in it.
ReadsInOrder(g, nodes) == Flatten([i \in 1..Len(nodes) |-> g.node[nodes[i]].inputs])
FirstUse(g, nodes, a) == Pos(ReadsInOrder(g, nodes), a)

\* One of the two guards of GetCapability turns the graph away.
Guarded(g) == g.is_subgraph \/ g.external \cap g.initializers # {}

\* Thread t's current call got as far as building the clusters.
Partitioned(t) == pc[t] \in {"loop", "store"} \/ (pc[t] = "done" /\ ~Guarded(graph[t]))

\* Thread t's current call returned after running the cluster loop.
Finished(t) == pc[t] = "done" /\ ~Guarded(graph[t])

\* The interfaces computed so far by thread t's current call.
Interfaces(t) == {resolved[t][i] : i \in 1..Len(resolved[t])}

\* C1: every tensor read by a node of a cluster is produced by a node of
\* the cluster or is one of the cluster's cluster_inputs.
C1_ReadsAreInternalOrInputs ==
  \A t \in DOMAIN pc : \A r \in Interfaces(t) :
    \A a \in TensorsReadBy(graph[t], r.nodes) :
      a \in TensorsProducedBy(graph[t], r.nodes) \/ a \in Range(r.inputs)

\* A cluster that reads a tensor it produces, an initializer and a tensor
\* that is neither.
C1_Witness ==
  \E t \in DOMAIN pc : \E r \in Interfaces(t) :
    /\ TensorsReadBy(graph[t], r.nodes) \cap TensorsProducedBy(graph[t], r.nodes) # {}
    /\ ExternalReads(graph[t], r.nodes) \cap graph[t].initializers # {}
    /\ ExternalReads(graph[t], r.nodes) \ graph[t].initializers # {}

\* C2: every tensor produced in a cluster that a node outside the cluster
\* reads, or that is a declared graph output, is one of the cluster's
\* cluster_outputs.
C2_NeededOutputsListed ==
  \A t \in DOMAIN pc : \A r \in Interfaces(t) :
    \A o \in TensorsProducedBy(graph[t], r.nodes) :
      (o \in ReadOutside(graph[t], r.nodes) \/ o \in Range(graph[t].outputs)) => o \in Range(r.outputs)

\* A cluster with one output read outside it and another output that is a
\* graph output read only inside it.
C2_Witness ==
  \E t \in DOMAIN pc : \E r \in Interfaces(t) :
    /\ TensorsProducedBy(graph[t], r.nodes) \cap ReadOutside(graph[t], r.nodes) # {}
    /\ \E o \in TensorsProducedBy(graph[t], r.nodes) \cap Range(graph[t].outputs) :
         o \notin ReadOutside(graph[t], r.nodes) /\ o \in TensorsReadBy(graph[t], r.nodes)

\* The clusters concatenated, with every unsupported node put back at the
\* position it has in the topological order.
Reassembled(cls, unsup, order) ==
  LET flat == Flatten(cls)
      at == {Pos(order, unsup[k]) : k \in 1..Len(unsup)}
  IN [i \in 1..(Len(flat) + Len(unsup)) |->
        IF i \in at /\ i <= Len(order) THEN order[i]
        ELSE LET k == i - Cardinality({j \in at : j < i})
             IN IF k \in 1..Len(flat) THEN flat[k] ELSE -1]

\* C3: the clusters are non-empty and, concatenated in order with the
\* unsupported nodes put back at their positions, give the topological
\* order; no cluster holds an unsupported node and no node is in two
\* clusters.
C3_ClustersReassemble ==
  \A t \in DOMAIN pc : Partitioned(t) =>
    /\ \A i \in 1..Len(clusters[t]) : clusters[t][i] # <<>>
    /\ Reassembled(clusters[t], unsupported_nodes[t], graph[t].order) = graph[t].order
    /\ Range(Flatten(clusters[t])) \cap Range(unsupported_nodes[t]) = {}
    /\ Cardinality(Range(Flatten(clusters[t]))) = Len(Flatten(clusters[t]))

\* Two clusters around an unsupported node, in a topological order that is
\* not the order of the node indices.
C3_Witness ==
  \E t \in DOMAIN pc :
    /\ Partitioned(t)
    /\ Len(clusters[t]) = 2
    /\ unsupported_nodes[t] # <<>>
    /\ graph[t].order # Ascending

\* The oracle supports one output of some node and not another.
OutputsDisagree(g, sup) ==
  \E n \in Range(g.order) : \E a, b \in Range(g.node[n].outputs) : a \in sup /\ b \notin sup

\* C4: when the outputs of some node disagree on support, the call aborts
\* with OracleInconsistency, builds no cluster and emits no descriptor.
C4_DisagreementAborts ==
  \A t \in DOMAIN pc :
    (OutputsDisagree(graph[t], supported_tensors[t]) /\ ~Guarded(graph[t]) /\ pc[t] # "idle") =>
      /\ pc[t] = "aborted"
      /\ outcome[t] = "OracleInconsistency"
      /\ result[t] = <<>>
      /\ clusters[t] = <<>>

\* The cluster reads from outside itself, and only initializers.
ConstantOnly(g, nodes) == ExternalReads(g, nodes) # {} /\ ExternalReads(g, nodes) \subseteq g.initializers

\* C5 as stated: no descriptor is emitted for a cluster that reads only
\* constant inputs and no dynamic input.
C5_ConstantOnlyDropped ==
  \A t \in DOMAIN pc : \A i \in 1..Len(result[t]) : ~ConstantOnly(graph[t], result[t][i].nodes)

\* C5 amended: a cluster is dropped exactly when its nodes read nothing
\* from outside the cluster; a cluster that reads only constants has them
\* as its cluster_inputs and gets a descriptor.
C5_OnlyInputlessDropped ==
  \A t \in DOMAIN pc : Finished(t) =>
    \A i \in 1..Len(clusters[t]) :
      LET c == clusters[t][i]
          ds == {j \in 1..Len(result[t]) : result[t][j].nodes = c}
      IN /\ (ExternalReads(graph[t], c) = {}) <=> (ds = {})
         /\ ConstantOnly(graph[t], c) => \E j \in ds : Range(result[t][j].inputs) = ExternalReads(graph[t], c)

\* A call that dropped a cluster reading nothing and emitted one reading
\* only an initializer.
C5_Witness ==
  \E t \in DOMAIN pc :
    /\ Finished(t)
    /\ \E i \in 1..Len(clusters[t]) : ExternalReads(graph[t], clusters[t][i]) = {}
    /\ \E j \in 1..Len(result[t]) : ConstantOnly(graph[t], result[t][j].nodes)

\* A constant input: an initializer that is not a graph input or is
\* required by a supported node.
IsConstantName(t, a) ==
  a \in graph[t].initializers /\ (a \notin graph[t].inputs \/ a \in required_initializers[t])

\* C6: in cluster_inputs no name occurs twice, no constant input precedes a
\* dynamic input, and within the dynamic and within the constant inputs the
\* names are in the order of their first use by the cluster's nodes.
C6_InputOrder ==
  \A t \in DOMAIN pc : \A r \in Interfaces(t) :
    /\ Range(r.inputs) \subseteq TensorsReadBy(graph[t], r.nodes)
    /\ \A i, j \in 1..Len(r.inputs) : i < j =>
         /\ r.inputs[i] # r.inputs[j]
         /\ ~(IsConstantName(t, r.inputs[i]) /\ ~IsConstantName(t, r.inputs[j]))
         /\ (IsConstantName(t, r.inputs[i]) <=> IsConstantName(t, r.inputs[j])) =>
              FirstUse(graph[t], r.nodes, r.inputs[i]) < FirstUse(graph[t], r.nodes, r.inputs[j])

\* A cluster with two dynamic inputs and a constant input that is used
\* before the first of them.
C6_Witness ==
  \E t \in DOMAIN pc : \E r \in Interfaces(t) :
    \E i, j, k \in 1..Len(r.inputs) :
      /\ i < j /\ j < k
      /\ ~IsConstantName(t, r.inputs[i]) /\ ~IsConstantName(t, r.inputs[j]) /\ IsConstantName(t, r.inputs[k])
      /\ FirstUse(graph[t], r.nodes, r.inputs[k]) < FirstUse(graph[t], r.nodes, r.inputs[i])

\* C7: no two descriptors emitted in the process carry the same name.
C7_NamesUnique ==
  \A i, j \in 1..Len(emitted) : i # j => emitted[i].name # emitted[j].name

\* The part of a descriptor that comes from the cluster.
Body(d) == [nodes |-> d.nodes, inputs |-> d.inputs, outputs |-> d.outputs]

\* C8: no descriptor has an empty input list and, when the call returns,
\* the descriptors are those of the clusters with a non-empty cluster_inputs,
\* one each, in cluster order.
C8_EmittedIffInputs ==
  \A t \in DOMAIN pc :
    /\ \A j \in 1..Len(result[t]) : result[t][j].inputs # <<>>
    /\ Finished(t) =>
         LET NonEmpty(r) == r.inputs # <<>>
         IN /\ Len(resolved[t]) = Len(clusters[t])
            /\ \A i \in 1..Len(clusters[t]) : resolved[t][i].nodes = clusters[t][i]
            /\ [j \in 1..Len(result[t]) |-> Body(result[t][j])] = SelectSeq(resolved[t], NonEmpty)

\* A call that returned after dropping one cluster and emitting another.
C8_Witness ==
  \E t \in DOMAIN pc :
    /\ Finished(t)
    /\ Len(result[t]) = 1
    /\ \E i \in 1..Len(resolved[t]) : resolved[t][i].inputs = <<>>

\* C9: for a nested graph or a graph with an externally stored initializer
\* the call returns no descriptor, raises nothing, and never writes
\* op_counter.
C9_GuardedGraphsYieldNothing ==
  \A t \in DOMAIN pc : (Guarded(graph[t]) /\ pc[t] # "idle") =>
    /\ pc[t] = "done"
    /\ outcome[t] = "ok"
    /\ result[t] = <<>>
    /\ \A i \in 1..Len(emitted) : emitted[i].thread # t
    /\ (DOMAIN pc = {t}) => op_counter = 0

\* A returned call on a graph that is not nested, has an externally stored
\* initializer, and all of whose tensors the oracle supports.
C9_Witness ==
  \E t \in DOMAIN pc :
    /\ pc[t] = "done"
    /\ ~graph[t].is_subgraph
    /\ graph[t].external # {}
    /\ supported_tensors[t] = TensorsProducedBy(graph[t], graph[t].order)

\* C10: an initializer read by a node of a cluster is in
\* required_initializers and is in cluster_inputs with only initializers
\* after it.
C10_InitializersAreConstantInputs ==
  \A t \in DOMAIN pc : \A r \in Interfaces(t) :
    \A a \in TensorsReadBy(graph[t], r.nodes) \cap graph[t].initializers :
      /\ a \in required_initializers[t]
      /\ a \in Range(r.inputs)
      /\ \A j \in Pos(r.inputs, a)..Len(r.inputs) : r.inputs[j] \in graph[t].initializers

\* A cluster that reads an initializer that is also a graph input before it
\* reads a plain graph input.
C10_Witness ==
  \E t \in DOMAIN pc : \E r \in Interfaces(t) :
    /\ D \in Range(r.inputs) /\ X \in Range(r.inputs)
    /\ FirstUse(graph[t], r.nodes, D) < FirstUse(graph[t], r.nodes, X)

====
